---------------------------- MODULE Spec2Model ----------------------------
(***************************************************************************)
(* Riglet clock2po: MIDI clock -> Pocket Operator sync clicks.             *)
(*                                                                         *)
(* The model follows src/clock2po_generic.py: the main thread opens the    *)
(* ALSA device with retries, then runs the scan loop that spawns one       *)
(* listener thread per MIDI input and clears the clock source when it      *)
(* vanished; every listener handles start/continue/stop/clock messages     *)
(* under state_lock and calls write_click(), which writes to the device    *)
(* under alsa_lock.  Both locks are threading.Lock objects: an acquire     *)
(* blocks while the lock is held, whoever holds it.                        *)
(***************************************************************************)
EXTENDS Naturals, Integers, FiniteSets, TLC

\* ---- program constants (USER SETTINGS) ----------------------------------
CLOCKS_PER_PULSE == 12

ALSA_OPEN_RETRIES == 20

\* ---- bounds of the model ------------------------------------------------
\* Longest run of consecutive owner clocks that is counted (history only:
\* a longer run goes on, uncounted).
MaxRun == 25

\* The MIDI inputs that discovery can report (not ignored by should_ignore).
Ports == {"A", "B"}

None == "None"

\* Message types a listener distinguishes; "other" is any other mido type.
MsgTypes == {"start", "continue", "stop", "clock", "other"}

VARIABLES
    pcm,             \* global pcm: "None" | "open" | "closed"
    attempts,        \* _open_alsa: attempts made so far (loop variable i)
    mpc,             \* position of the main thread
    present,         \* scan_and_spawn: the set handed to clear_source_if_gone
    current_source,  \* global current_source: None or a port name
    running,         \* global running
    ticks,           \* global ticks
    state_lock,      \* holder of state_lock: "free", a port (its listener)
    alsa_lock,       \* holder of alsa_lock: "free", a port, or "main"
    threads,         \* keys of the global threads dict
    lpc,             \* position of the listener thread of each port
    msg,             \* the message a listener is handling ("none" if none)
    stop_event,      \* threading.Event set by handle_sig
    \* ---- history (observation only, never read by the program) ----
    ev,              \* the listener event whose handling produced this state (chg: it
                     \* changed the arbitration state; mid: it found its sender the
                     \* running owner with ticks > 0)
    muted,           \* the owner sent stop, and no start/continue took effect since
    runK,            \* consecutive clocks of the running owner since its start (-1: not counted)
    runP,            \* write_click calls made during those runK clocks
    runDrop,         \* a device write failed during the counted run
    \* ---- midi_autopatch_generic.py (a separate daemon) and ALSA's sequencer ----
    plugged,         \* the client:port ids that exist (devices plugged in)
    links,           \* ALSA's connections, pairs <<src, dst>>
    known,           \* main: the set known
    apc,             \* position of the autopatch main loop
    a_ins,           \* main: ins, as list_ports returned it
    a_outs,          \* main: outs
    passOk           \* history: the last pass had no failed aconnect call

arb == <<current_source, running, ticks>>

\* The variables of clock2po and those of the autopatch daemon: the two
\* programs share no state.
cvars == <<pcm, attempts, mpc, present, current_source, running, ticks,
           state_lock, alsa_lock, threads, lpc, msg, stop_event,
           ev, muted, runK, runP, runDrop>>

pvars == <<plugged, links, known, apc, a_ins, a_outs, passOk>>

vars == <<cvars, pvars>>

NoEv == [p |-> None, t |-> "none", chg |-> FALSE, mid |-> FALSE]

\* The process runs until main returns or dies of the RuntimeError;
\* the listeners are daemon threads and end with it.
ProcessAlive == mpc \notin {"fatal", "done"}

Init ==
    /\ pcm = None
    /\ attempts = 0
    /\ mpc = "open"
    /\ present = {}
    /\ current_source = None
    /\ running = FALSE
    /\ ticks = 0
    /\ state_lock = "free"
    /\ alsa_lock = "free"
    /\ threads = {}
    /\ lpc = [p \in Ports |-> "none"]
    /\ msg = [p \in Ports |-> "none"]
    /\ stop_event = FALSE
    /\ ev = NoEv
    /\ muted = FALSE
    /\ runK = -1
    /\ runP = 0
    /\ runDrop = FALSE
    /\ plugged = {}
    /\ links = {}
    /\ known = {}
    /\ apc = "list"
    /\ a_ins = {}
    /\ a_outs = {}
    /\ passOk = FALSE


\* ========================= main thread: _open_alsa =======================
\* Every action of the main thread leaves the listeners' part and the
\* history alone unless it says otherwise.
MainOnly ==
    /\ UNCHANGED <<current_source, running, ticks, state_lock>>
    /\ UNCHANGED <<threads, lpc, msg, stop_event, muted, runK, runP, runDrop>>
    /\ UNCHANGED pvars
    /\ ev' = NoEv

\* Line 51 raises: pcm keeps the value it had; the except clause logs and sleeps.
OpenFailCreate ==
    /\ mpc = "open"
    /\ attempts < ALSA_OPEN_RETRIES
    /\ attempts' = attempts + 1
    /\ UNCHANGED <<pcm, mpc, present, alsa_lock>>
    /\ MainOnly

\* Line 51 succeeds and assigns the global, one of lines 52-55 raises.
OpenFailConfig ==
    /\ mpc = "open"
    /\ attempts < ALSA_OPEN_RETRIES
    /\ attempts' = attempts + 1
    /\ pcm' = "open"
    /\ UNCHANGED <<mpc, present, alsa_lock>>
    /\ MainOnly

\* Lines 51-56 all succeed: break.
OpenOk ==
    /\ mpc = "open"
    /\ attempts < ALSA_OPEN_RETRIES
    /\ attempts' = 0
    /\ pcm' = "open"
    /\ mpc' = "opened"
    /\ UNCHANGED <<present, alsa_lock>>
    /\ MainOnly

\* range(1, ALSA_OPEN_RETRIES + 1) is used up: the for loop ends without break.
OpenExhausted ==
    /\ mpc = "open"
    /\ attempts = ALSA_OPEN_RETRIES
    /\ attempts' = 0
    /\ mpc' = "exhausted"
    /\ UNCHANGED <<pcm, present, alsa_lock>>
    /\ MainOnly

\* Lines 60-61: the only test made after the loop.
OpenMustRaise == pcm = None

\* RuntimeError leaves _open_alsa and main: the process ends.
OpenRaise ==
    /\ mpc \in {"opened", "exhausted"}
    /\ OpenMustRaise
    /\ mpc' = "fatal"
    /\ UNCHANGED <<pcm, attempts, present, alsa_lock>>
    /\ MainOnly

\* Lines 63-81: build the buffers, prime the device (write errors are
\* logged), return to main, which enters the scan loop.
OpenPrime ==
    /\ mpc \in {"opened", "exhausted"}
    /\ ~OpenMustRaise
    /\ mpc' = "loop"
    /\ UNCHANGED <<pcm, attempts, present, alsa_lock>>
    /\ MainOnly

\* ========================= main thread: scan loop ========================
\* scan_and_spawn lines 158-167: spawn a listener for every present name
\* without an entry in threads, then pop the entries whose thread is dead.
\* Variant: a listener is started for every present name, entry or not.
Spawned_All(pres) == pres

Spawned(pres) == pres \ threads

DeadEntries == {n \in threads : lpc[n] = "dead"}

ScanSpawn(pres) ==
    /\ mpc = "loop"
    /\ ~stop_event
    /\ threads' = (threads \cup Spawned(pres)) \ DeadEntries
    /\ lpc' = [n \in Ports |->
                IF n \in Spawned(pres) THEN "opening"
                ELSE IF n \in DeadEntries THEN "none"
                ELSE lpc[n]]
    /\ present' = pres
    /\ mpc' = "clear"
    /\ ev' = NoEv
    /\ UNCHANGED <<pcm, attempts, alsa_lock, current_source, running, ticks,
                   state_lock, msg, stop_event, muted, runK, runP, runDrop>>
    /\ UNCHANGED pvars

\* The mark a failed scan iteration leaves in ev.
ScanErrEv == [p |-> None, t |-> "scanfail", chg |-> FALSE, mid |-> FALSE]

\* Variant: no try/except around scan_and_spawn, the exception ends main.
AfterScanError_Escapes == "fatal"

\* Where main is after scan_and_spawn raised (lines 185-186): the error is
\* logged and main goes on to the sleep of line 187.
AfterScanError == "sleep"

\* mido.get_input_names() raises: main logs and sleeps (lines 185-187).
ScanFail ==
    /\ mpc = "loop"
    /\ ~stop_event
    /\ mpc' = AfterScanError
    /\ ev' = ScanErrEv
    /\ UNCHANGED <<pcm, attempts, present, alsa_lock>>
    /\ UNCHANGED <<current_source, running, ticks, state_lock>>
    /\ UNCHANGED <<threads, lpc, msg, stop_event, muted, runK, runP, runDrop>>
    /\ UNCHANGED pvars

\* clear_source_if_gone, lines 116-119 (the body under state_lock).
Gone(pres) == current_source # None /\ current_source \notin pres

\* Variant: the vanished owner is dropped, the transport flag is forgotten.
ClearEffect_KeepRunning(pres) ==
    IF Gone(pres)
    THEN [src |-> None, run |-> running, tk |-> ticks]
    ELSE [src |-> current_source, run |-> running, tk |-> ticks]

\* Variant: the owner is dropped without looking at the discovered set.
ClearEffect_NoCheck(pres) ==
    IF current_source # None
    THEN [src |-> None, run |-> FALSE, tk |-> ticks]
    ELSE [src |-> current_source, run |-> running, tk |-> ticks]

ClearEffect(pres) ==
    IF Gone(pres)
    THEN [src |-> None, run |-> FALSE, tk |-> ticks]
    ELSE [src |-> current_source, run |-> running, tk |-> ticks]

\* scan_and_spawn line 169: clear_source_if_gone(present).
ClearSource ==
    /\ mpc = "clear"
    /\ state_lock = "free"
    /\ current_source' = ClearEffect(present).src
    /\ running' = ClearEffect(present).run
    /\ ticks' = ClearEffect(present).tk
    /\ runK' = IF Gone(present) THEN -1 ELSE runK
    /\ runP' = IF Gone(present) THEN 0 ELSE runP
    /\ runDrop' = IF Gone(present) THEN FALSE ELSE runDrop
    /\ present' = {}
    /\ mpc' = "sleep"
    /\ ev' = NoEv
    /\ UNCHANGED <<pcm, attempts, alsa_lock, state_lock, threads, lpc, msg,
                   stop_event, muted>>
    /\ UNCHANGED pvars

\* Line 187: time.sleep(MIDI_SCAN_SEC), back to the test of line 182.
Sleep ==
    /\ mpc = "sleep"
    /\ mpc' = "loop"
    /\ UNCHANGED <<pcm, attempts, present, alsa_lock>>
    /\ MainOnly

\* Line 182 finds stop_event set: fall to the cleanup; pcm is not None here.
MainStop ==
    /\ mpc = "loop"
    /\ stop_event
    /\ mpc' = "close"
    /\ UNCHANGED <<pcm, attempts, present, alsa_lock>>
    /\ MainOnly

\* Line 192: with alsa_lock.
CloseMayEnter == alsa_lock = "free"

CloseBegin ==
    /\ mpc = "close"
    /\ CloseMayEnter
    /\ alsa_lock' = "main"
    /\ mpc' = "closing"
    /\ UNCHANGED <<pcm, attempts, present>>
    /\ MainOnly

\* Line 193 returns (or raises, swallowed), the lock is released, main returns.
CloseEnd ==
    /\ mpc = "closing"
    /\ pcm' = "closed"
    /\ alsa_lock' = "free"
    /\ mpc' = "done"
    /\ UNCHANGED <<attempts, present>>
    /\ MainOnly

\* handle_sig: SIGINT or SIGTERM, at any time while the process lives.
Signal ==
    /\ ProcessAlive
    /\ ~stop_event
    /\ stop_event' = TRUE
    /\ ev' = NoEv
    /\ UNCHANGED <<pcm, attempts, mpc, present, alsa_lock, current_source,
                   running, ticks, state_lock, threads, lpc, msg, muted, runK, runP, runDrop>>
    /\ UNCHANGED pvars


\* ========================= listener threads ==============================
\* Every action of a listener leaves the main thread's part alone.
ListenerOnly == UNCHANGED <<attempts, mpc, present, threads, stop_event, pvars>>

\* Line 125: mido.open_input(port_name) succeeds.
ListenerOpen(p) ==
    /\ ProcessAlive
    /\ lpc[p] = "opening"
    /\ lpc' = [lpc EXCEPT ![p] = "wait"]
    /\ ev' = NoEv
    /\ UNCHANGED <<pcm, alsa_lock, current_source, running, ticks, state_lock,
                   msg, muted, runK, runP, runDrop>>
    /\ ListenerOnly

\* Variant: a listener that returns gives up the output it owns.
OnExit_Release(p) ==
    IF current_source = p
    THEN [src |-> None, run |-> FALSE, tk |-> 0]
    ELSE [src |-> current_source, run |-> running, tk |-> ticks]

\* What a returning listener does to the arbitration state (lines 129,
\* 153-154: break, or log the exception): nothing.
OnExit(p) == [src |-> current_source, run |-> running, tk |-> ticks]

\* open_input raises, or the iteration over inp ends or raises (lines 153-154):
\* the thread returns without touching the arbitration state.
ListenerEnd(p) ==
    /\ ProcessAlive
    /\ lpc[p] \in {"opening", "wait"}
    /\ lpc' = [lpc EXCEPT ![p] = "dead"]
    /\ current_source' = OnExit(p).src
    /\ running' = OnExit(p).run
    /\ ticks' = OnExit(p).tk
    /\ ev' = NoEv
    /\ UNCHANGED <<pcm, alsa_lock, state_lock, msg, muted, runK, runP, runDrop>>
    /\ ListenerOnly

\* Lines 127-131, 138, 143: the next message arrives; stop_event is looked
\* at only now.  A message of another type is ignored.
Recv(p, t) ==
    /\ ProcessAlive
    /\ lpc[p] = "wait"
    /\ IF stop_event
       THEN /\ lpc' = [lpc EXCEPT ![p] = "dead"]
            /\ msg' = msg
            /\ current_source' = OnExit(p).src
            /\ running' = OnExit(p).run
            /\ ticks' = OnExit(p).tk
       ELSE IF t = "other"
       THEN UNCHANGED <<lpc, msg, current_source, running, ticks>>
       ELSE /\ lpc' = [lpc EXCEPT ![p] = "lock"]
            /\ msg' = [msg EXCEPT ![p] = t]
            /\ UNCHANGED <<current_source, running, ticks>>
    /\ ev' = NoEv
    /\ UNCHANGED <<pcm, alsa_lock, state_lock, muted, runK, runP, runDrop>>
    /\ ListenerOnly

\* ---- the bodies of the critical sections, as functions of the state -----
Same == [src |-> current_source, run |-> running, tk |-> ticks, click |-> FALSE]

\* Variant: start/continue takes the output over from another owner.
OnStart_Steal(p) == [src |-> p, run |-> TRUE, tk |-> 0, click |-> FALSE]

\* Variant: start/continue of the owner does not restart the count.
OnStart_KeepTicks(p) ==
    LET src == IF current_source = None THEN p ELSE current_source
    IN  IF src = p
        THEN [src |-> src, run |-> TRUE, tk |-> ticks, click |-> FALSE]
        ELSE [Same EXCEPT !.src = src]

\* Lines 133-137.
OnStart(p) ==
    LET src == IF current_source = None THEN p ELSE current_source
    IN  IF src = p
        THEN [src |-> src, run |-> TRUE, tk |-> 0, click |-> FALSE]
        ELSE [Same EXCEPT !.src = src]

\* Variant: stop is obeyed whichever input sends it.
OnStop_AnyPort(p) == [src |-> current_source, run |-> FALSE, tk |-> 0, click |-> FALSE]

\* Lines 140-142.
OnStop(p) ==
    IF current_source = p
    THEN [src |-> current_source, run |-> FALSE, tk |-> 0, click |-> FALSE]
    ELSE Same

\* Variant: the comparison of line 149 is > instead of >=.
OnClock_OffByOne(p) ==
    IF current_source = p /\ running
    THEN IF ticks + 1 > CLOCKS_PER_PULSE
         THEN [Same EXCEPT !.tk = 0, !.click = TRUE]
         ELSE [Same EXCEPT !.tk = ticks + 1]
    ELSE Same

\* Variant: line 147 does not test running.
OnClock_IgnoreRunning(p) ==
    IF current_source = p
    THEN IF ticks + 1 >= CLOCKS_PER_PULSE
         THEN [Same EXCEPT !.tk = 0, !.click = TRUE]
         ELSE [Same EXCEPT !.tk = ticks + 1]
    ELSE Same

\* Variant: line 147 does not test that the sender is the owner.
OnClock_AnyPort(p) ==
    IF running
    THEN IF ticks + 1 >= CLOCKS_PER_PULSE
         THEN [Same EXCEPT !.tk = 0, !.click = TRUE]
         ELSE [Same EXCEPT !.tk = ticks + 1]
    ELSE Same

\* Lines 147-151, entered with current_source set.
OnClock(p) ==
    IF current_source = p /\ running
    THEN IF ticks + 1 >= CLOCKS_PER_PULSE
         THEN [Same EXCEPT !.tk = 0, !.click = TRUE]
         ELSE [Same EXCEPT !.tk = ticks + 1]
    ELSE Same

\* adopt_source, lines 107-110 (the body under state_lock).
OnAdopt(p) ==
    IF current_source = None
    THEN [src |-> p, run |-> FALSE, tk |-> 0, click |-> FALSE]
    ELSE Same

\* threading.Lock.acquire: blocks while the lock is held, also when the
\* caller itself holds it (the lock is not reentrant).
CanAcquireState(p) == state_lock = "free"

Effect(p) ==
    CASE lpc[p] = "adopt" -> OnAdopt(p)
      [] msg[p] \in {"start", "continue"} -> OnStart(p)
      [] msg[p] = "stop" -> OnStop(p)
      [] OTHER -> OnClock(p)

\* The owner's clock while running: the case the run counters count.
OwnerClock(p) == msg[p] = "clock" /\ current_source = p /\ running

\* A listener acquires state_lock and runs the critical section of its
\* message (lines 132-137, 139-142, 144-151), or, blocked inside
\* adopt_source (line 106), the body of adopt_source.
\*  - clock with current_source None: line 146 calls adopt_source while
\*    state_lock is held; the listener goes to wait for it there.
\*  - clock that completes a pulse: write_click() is called at line 151,
\*    still inside the with block.
\*  - otherwise the with block ends and the listener waits for a message.
Handle(p) ==
    /\ ProcessAlive
    /\ lpc[p] \in {"lock", "adopt"}
    /\ CanAcquireState(p)
    /\ IF lpc[p] = "lock" /\ msg[p] = "clock" /\ current_source = None
       THEN /\ lpc' = [lpc EXCEPT ![p] = "adopt"]
            /\ state_lock' = p
            /\ ev' = NoEv
            /\ UNCHANGED <<current_source, running, ticks, msg, muted, runK, runP, runDrop>>
       ELSE /\ current_source' = Effect(p).src
            /\ running' = Effect(p).run
            /\ ticks' = Effect(p).tk
            /\ lpc' = [lpc EXCEPT ![p] = IF Effect(p).click THEN "click" ELSE "wait"]
            /\ state_lock' = IF Effect(p).click THEN p ELSE "free"
            /\ msg' = [msg EXCEPT ![p] = "none"]
            /\ ev' = [p |-> p, t |-> msg[p],
                      chg |-> <<Effect(p).src, Effect(p).run, Effect(p).tk>> # arb,
                      mid |-> current_source = p /\ running /\ ticks > 0]
            /\ muted' = CASE msg[p] \in {"start", "continue"} /\ Effect(p).src = p -> FALSE
                          [] msg[p] = "stop" /\ current_source = p -> TRUE
                          [] OTHER -> muted
            /\ runK' = CASE msg[p] \in {"start", "continue"} /\ Effect(p).src = p -> 0
                         [] msg[p] = "stop" /\ current_source = p -> -1
                         [] OwnerClock(p) ->
                              IF runK >= 0 /\ runK < MaxRun THEN runK + 1 ELSE -1
                         [] OTHER -> runK
            /\ runP' = CASE msg[p] \in {"start", "continue"} /\ Effect(p).src = p -> 0
                         [] msg[p] = "stop" /\ current_source = p -> 0
                         [] OwnerClock(p) ->
                              IF runK >= 0 /\ runK < MaxRun
                              THEN runP + (IF lpc'[p] = "click" THEN 1 ELSE 0)
                              ELSE 0
                         [] OTHER -> runP
            /\ runDrop' = IF runK' > 0 THEN runDrop ELSE FALSE
    /\ UNCHANGED <<pcm, alsa_lock>>
    /\ ListenerOnly

\* ---- write_click ---------------------------------------------------------
\* Variant: write_click writes without taking alsa_lock.
CanAcquireAlsa_NoLock(p) == TRUE

\* Line 89: with alsa_lock.
CanAcquireAlsa(p) == alsa_lock = "free"

\* Lines 87-89: return at once when pcm is None, else take alsa_lock.
WriteClickEnter(p) ==
    /\ ProcessAlive
    /\ lpc[p] = "click"
    /\ IF pcm = None
       THEN /\ lpc' = [lpc EXCEPT ![p] = "wait"]
            /\ state_lock' = "free"
            /\ UNCHANGED alsa_lock
       ELSE /\ CanAcquireAlsa(p)
            /\ alsa_lock' = p
            /\ lpc' = [lpc EXCEPT ![p] = "w1"]
            /\ UNCHANGED state_lock
    /\ ev' = NoEv
    /\ UNCHANGED <<pcm, current_source, running, ticks, msg, muted, runK, runP, runDrop>>
    /\ ListenerOnly

\* Variant: the write error is not caught and ends the listener.
AfterWriteError_Escapes == "dead"

\* Where the listener is after a write raised (lines 93-94): the error is
\* logged, both with blocks end, the loop goes on to the next message.
AfterWriteError == "wait"

\* Line 91: pcm.write(click_buf) returns (only an open device takes data).
WritePulseOk(p) ==
    /\ ProcessAlive
    /\ lpc[p] = "w1"
    /\ pcm = "open"
    /\ lpc' = [lpc EXCEPT ![p] = "w2"]
    /\ ev' = NoEv
    /\ UNCHANGED <<pcm, alsa_lock, state_lock, current_source, running, ticks,
                   msg, muted, runK, runP, runDrop>>
    /\ ListenerOnly

\* Line 92: pcm.write(silence_buf) returns; write_click returns.
WriteSilenceOk(p) ==
    /\ ProcessAlive
    /\ lpc[p] = "w2"
    /\ pcm = "open"
    /\ lpc' = [lpc EXCEPT ![p] = "wait"]
    /\ alsa_lock' = "free"
    /\ state_lock' = "free"
    /\ ev' = NoEv
    /\ UNCHANGED <<pcm, current_source, running, ticks, msg, muted, runK, runP, runDrop>>
    /\ ListenerOnly

\* Line 91 or 92 raises: lines 93-94.
WriteFail(p) ==
    /\ ProcessAlive
    /\ lpc[p] \in {"w1", "w2"}
    /\ lpc' = [lpc EXCEPT ![p] = AfterWriteError]
    /\ alsa_lock' = "free"
    /\ state_lock' = "free"
    /\ ev' = [p |-> p, t |-> "wfail", chg |-> FALSE, mid |-> FALSE]
    /\ runDrop' = (runK >= 0)
    /\ UNCHANGED <<pcm, current_source, running, ticks, msg, muted, runK, runP>>
    /\ ListenerOnly

\* ========================= the program ===================================
Next ==
    \/ OpenFailCreate
    \/ OpenFailConfig
    \/ OpenOk
    \/ OpenExhausted
    \/ OpenRaise
    \/ OpenPrime
    \/ \E pres \in SUBSET Ports : ScanSpawn(pres)
    \/ ScanFail
    \/ ClearSource
    \/ Sleep
    \/ MainStop
    \/ CloseBegin
    \/ CloseEnd
    \/ Signal
    \/ \E p \in Ports : ListenerOpen(p)
    \/ \E p \in Ports : ListenerEnd(p)
    \/ \E p \in Ports : \E t \in MsgTypes : Recv(p, t)
    \/ \E p \in Ports : Handle(p)
    \/ \E p \in Ports : WriteClickEnter(p)
    \/ \E p \in Ports : WritePulseOk(p)
    \/ \E p \in Ports : WriteSilenceOk(p)
    \/ \E p \in Ports : WriteFail(p)

Spec == Init /\ [][Next]_vars

\* ========================= midi_autopatch_generic.py =====================
\* The ALSA client:port ids of the real (not ignored) inputs and outputs,
\* as `aconnect -i` and `aconnect -o` list them while the device is plugged.
PatchIns == {"20:0", "24:0"}

PatchOuts == {"24:0", "28:0"}

PatchIds == PatchIns \cup PatchOuts

PatchOnly == UNCHANGED cvars

\* A device is plugged in: its port appears under its client:port id.
Plug(d) ==
    /\ d \notin plugged
    /\ plugged' = plugged \cup {d}
    /\ UNCHANGED <<links, known, apc, a_ins, a_outs, passOk>>
    /\ PatchOnly

\* A device is unplugged: ALSA removes the port and its connections.
Unplug(d) ==
    /\ d \in plugged
    /\ plugged' = plugged \ {d}
    /\ links' = {l \in links : l[1] # d /\ l[2] # d}
    /\ UNCHANGED <<known, apc, a_ins, a_outs, passOk>>
    /\ PatchOnly

\* Lines 91-93: list_ports() (both sets empty when aconnect fails); with
\* nothing listed, sleep and start over.
PatchList(ok) ==
    /\ apc = "list"
    /\ a_ins' = IF ok THEN plugged \cap PatchIns ELSE {}
    /\ a_outs' = IF ok THEN plugged \cap PatchOuts ELSE {}
    /\ apc' = IF a_ins' = {} /\ a_outs' = {} THEN "sleep" ELSE "patch"
    /\ passOk' = FALSE
    /\ UNCHANGED <<plugged, links, known>>
    /\ PatchOnly

\* Line 101: the pairs the loop passes over.
Skip(pair, kn, current) == pair \in kn \/ pair \in current

\* Lines 98-101: the pairs connect() is called for, known being already
\* joined with current (line 96).
Wanted(kn, current) ==
    {pair \in a_ins \X a_outs : pair[1] # pair[2] /\ ~Skip(pair, kn, current)}

\* connect(), lines 79-85: aconnect succeeds when both ports exist and are
\* not connected yet, unless it fails for a transient reason.
Connects(pair, fails) ==
    /\ pair[1] \in plugged
    /\ pair[2] \in plugged
    /\ pair \notin links
    /\ pair \notin fails

\* Lines 95-106: existing_connections() (empty when aconnect fails),
\* known |= current, connect every pair not passed over, sleep.
PatchPass(cok, fails) ==
    /\ apc = "patch"
    /\ LET current == IF cok THEN links ELSE {}
           kn == known \cup current
           made == {pair \in Wanted(kn, current) : Connects(pair, fails)}
       IN  /\ links' = links \cup made
           /\ known' = kn \cup made
           /\ passOk' = (made = Wanted(kn, current))
    /\ apc' = "sleep"
    /\ a_ins' = {}
    /\ a_outs' = {}
    /\ UNCHANGED plugged
    /\ PatchOnly

\* Line 106 (or 93): time.sleep(SCAN_SEC), next iteration.
PatchSleep ==
    /\ apc = "sleep"
    /\ apc' = "list"
    /\ UNCHANGED <<plugged, links, known, a_ins, a_outs, passOk>>
    /\ PatchOnly

PatchNext ==
    \/ \E d \in PatchIds : Plug(d)
    \/ \E d \in PatchIds : Unplug(d)
    \/ \E ok \in BOOLEAN : PatchList(ok)
    \/ \E cok \in BOOLEAN : \E fails \in SUBSET (PatchIns \X PatchOuts) : PatchPass(cok, fails)
    \/ PatchSleep

PatchSpec == Init /\ [][PatchNext]_vars

\* ========================= properties ====================================
InEmit(p) == lpc[p] \in {"click", "w1", "w2"}

\* The step in which the listener of p runs the critical section of a message.
Handled(p) == lpc[p] = "lock" /\ lpc'[p] # "lock"

\* C1: in every reachable state running implies that an owner is set
\* (current_source is not None), whatever the interleaving of listener
\* events and reconciliation passes.
ThmC1 == running => current_source # None

\* An owner adopted second is running while the other listener waits for
\* state_lock and a reconciliation pass is under way.
WitC1 ==
    /\ running
    /\ current_source = "B"
    /\ lpc["A"] = "lock"
    /\ mpc = "clear"

\* C2: while the running owner sends k consecutive clocks from ticks = 0,
\* exactly k \div CLOCKS_PER_PULSE calls of write_click are made, one at
\* each CLOCKS_PER_PULSE-th clock, ticks is the remainder, and ticks is
\* never CLOCKS_PER_PULSE or more in any state.
ThmC2 ==
    /\ ticks < CLOCKS_PER_PULSE
    /\ runK >= 0 =>
         /\ runP = runK \div CLOCKS_PER_PULSE
         /\ ticks = runK % CLOCKS_PER_PULSE
         /\ running
         /\ current_source # None

\* Start, then 2 * CLOCKS_PER_PULSE + 1 clocks: two pulses, one tick pending.
WitC2 ==
    /\ runK = 2 * CLOCKS_PER_PULSE + 1
    /\ runP = 2
    /\ ticks = 1

\* C3: adoption is first-come.  While an owner is set, the handling of any
\* message of another input leaves current_source, running and ticks
\* unchanged and calls no write_click; and current_source changes from an
\* owner only by the reconciliation pass that finds the owner absent.
ThmC3 ==
    [][ /\ \A p \in Ports :
             (Handled(p) /\ current_source # None /\ current_source # p)
                => (UNCHANGED arb /\ lpc'[p] = "wait")
        /\ (current_source # None /\ current_source' # current_source)
             => /\ mpc = "clear"
                /\ mpc' = "sleep"
                /\ current_source \notin present
                /\ current_source' = None
      ]_vars

\* A start of the other input was handled, and ignored, while the owner
\* is running in mid-count.
WitC3 ==
    /\ ev.t = "start"
    /\ current_source # None
    /\ ev.p # current_source
    /\ running
    /\ ticks > 0

\* C4 (as claimed): a listener that handles a clock while the owner is
\* unclaimed completes the handling as the owner: once it has called
\* adopt_source it is able to go on, and adopt_source makes it the owner.
CexC4 ==
    \A p \in Ports :
        lpc[p] = "adopt" => (ENABLED Handle(p) /\ OnAdopt(p).src = p)

\* C5 (as claimed): a reconciliation pass that finds the owner absent
\* leaves owner None, running FALSE and ticks 0; otherwise it leaves owner,
\* running and ticks unchanged.
CexC5 ==
    [][ (mpc = "clear" /\ mpc' = "sleep") =>
          IF current_source # None /\ current_source \notin present
          THEN current_source' = None /\ running' = FALSE /\ ticks' = 0
          ELSE UNCHANGED arb
      ]_vars

\* C5 (amended): a reconciliation pass that finds the owner absent leaves
\* owner None and running FALSE and does not touch ticks; otherwise it
\* leaves owner, running and ticks unchanged.
ThmC5 ==
    [][ (mpc = "clear" /\ mpc' = "sleep") =>
          IF current_source # None /\ current_source \notin present
          THEN current_source' = None /\ running' = FALSE /\ ticks' = ticks
          ELSE UNCHANGED arb
      ]_vars

\* A pass has just cleared an owner that was in mid-count.
WitC5 ==
    /\ mpc = "sleep"
    /\ current_source = None
    /\ ~running
    /\ ticks > 0

\* C6: a pulse is emitted only while the transport runs for the owner:
\* a listener is inside write_click only as the running owner, and from the
\* owner's stop until a start or continue takes effect running is FALSE,
\* ticks is 0 and no listener is inside write_click, whatever clocks arrive.
ThmC6 ==
    /\ \A p \in Ports : InEmit(p) => (current_source = p /\ running)
    /\ muted =>
         /\ ~running
         /\ ticks = 0
         /\ \A p \in Ports : ~InEmit(p)

\* The owner's clock has been handled after its stop.
WitC6 ==
    /\ muted
    /\ ev.t = "clock"
    /\ ev.p = current_source

\* C7: a stop of the owner sets running FALSE and ticks 0 and keeps the
\* owner; a further stop of the owner changes nothing; a stop of an input
\* that is not the owner (also with no owner) changes nothing.
ThmC7 ==
    [][ \A p \in Ports :
          (Handled(p) /\ msg[p] = "stop") =>
             /\ lpc'[p] = "wait"
             /\ current_source' = current_source
             /\ IF current_source = p
                THEN running' = FALSE /\ ticks' = 0
                ELSE UNCHANGED <<running, ticks>>
             /\ (current_source = p /\ muted) => UNCHANGED arb
      ]_vars

\* A stop of the owner was handled and changed nothing: a repeated stop.
WitC7 ==
    /\ ev.t = "stop"
    /\ ev.p = current_source
    /\ ~ev.chg
    /\ muted

\* C8 (as claimed): when every attempt of the retry budget failed, the
\* open ends in the fatal error and main does not reach the scan loop.
CexC8 == [][mpc = "exhausted" => mpc' = "fatal"]_vars

\* C9: at most one write sequence is in flight on the device: the two
\* writes of a write_click are interleaved neither with a write of another
\* write_click nor with the close of the device at shutdown.
ThmC9 ==
    Cardinality({p \in Ports : lpc[p] \in {"w1", "w2"}})
      + (IF mpc = "closing" THEN 1 ELSE 0) <= 1

\* A write sequence is between its two writes while main waits to close
\* the device and the other listener waits for state_lock.
WitC9 ==
    /\ lpc["A"] = "w2"
    /\ mpc = "close"
    /\ lpc["B"] = "lock"

\* C10: a failed device write is contained.  The step in which the write
\* raises makes no further write for that pulse (the listener is back
\* waiting for its next message, both locks released), keeps pcm, owner and
\* running, leaves ticks 0, and the count of pulses per clocks of the run
\* goes on as if the pulse had been written.
ThmC10 ==
    [][ /\ \A p \in Ports :
             (lpc[p] \in {"w1", "w2"} /\ ev'.t = "wfail" /\ ev'.p = p) =>
                /\ lpc'[p] = "wait"
                /\ state_lock' = "free"
                /\ alsa_lock' = "free"
                /\ pcm' = pcm
                /\ pcm' # None
                /\ UNCHANGED <<current_source, running, runK, runP>>
                /\ current_source' = p
                /\ running'
                /\ ticks' = 0
        /\ (runDrop' /\ runK' >= 0) =>
             runP' = runK' \div CLOCKS_PER_PULSE
      ]_vars

\* After a pulse of the run was lost, the next pulse of the same run is
\* being written, CLOCKS_PER_PULSE clocks later.
WitC10 ==
    /\ runDrop
    /\ runK = 2 * CLOCKS_PER_PULSE
    /\ \E p \in Ports : lpc[p] = "w1" /\ current_source = p

\* C11 (as claimed): the device write of a pulse is made outside the
\* arbitration critical section: while a listener is writing to the device
\* it does not hold state_lock.
CexC11 == \A p \in Ports : lpc[p] \in {"w1", "w2"} => state_lock # p

\* C12 (as claimed): after stop_event is set every listener loop returns,
\* the scan loop ends, and then the device is released.  The process ends
\* when main returns, so the claim requires that in the state in which main
\* has closed the device and returned, every listener has returned.
CexC12 == mpc = "done" => \A p \in Ports : lpc[p] \in {"none", "dead"}

\* C13: a start or continue of input p makes p the owner when the owner is
\* unclaimed; when p is then the owner, running becomes TRUE and ticks 0
\* (also when p was running in mid-count); when another input is the
\* owner, nothing changes.
ThmC13 ==
    [][ \A p \in Ports :
          (Handled(p) /\ msg[p] \in {"start", "continue"}) =>
             /\ lpc'[p] = "wait"
             /\ current_source' = IF current_source = None THEN p ELSE current_source
             /\ IF current_source' = p
                THEN running' = TRUE /\ ticks' = 0
                ELSE UNCHANGED <<running, ticks>>
      ]_vars

\* A continue of the running owner was handled in mid-count and restarted
\* the count.
WitC13 ==
    /\ ev.t = "continue"
    /\ ev.mid
    /\ ev.p = current_source
    /\ running
    /\ ticks = 0

\* C14: ticks is in 0 .. CLOCKS_PER_PULSE - 1 in every state, and a step
\* that changes ticks either sets it to 0 or is the handling of a clock by
\* the listener of the owner while running is TRUE, which adds one.
ThmC14 ==
    /\ ticks \in 0..(CLOCKS_PER_PULSE - 1)
    /\ [][ /\ ticks' \in 0..(CLOCKS_PER_PULSE - 1)
           /\ (ticks' # ticks /\ ticks' # 0) =>
                /\ ticks' = ticks + 1
                /\ \E p \in Ports :
                     /\ Handled(p)
                     /\ msg[p] = "clock"
                     /\ current_source = p
                     /\ running
         ]_vars

\* The owner's clock has brought ticks to its largest value.
WitC14 ==
    /\ ev.t = "clock"
    /\ ev.chg
    /\ ev.p = current_source
    /\ ticks = CLOCKS_PER_PULSE - 1

\* C15: a listener that returns (input ended, error, shutdown seen) leaves
\* owner, running and ticks unchanged, also when it is the owner; the only
\* step that takes current_source from an owner to None is the
\* reconciliation pass (clear_source_if_gone).
ThmC15 ==
    [][ /\ \A p \in Ports :
             (lpc[p] # "dead" /\ lpc'[p] = "dead") => UNCHANGED arb
        /\ (current_source # None /\ current_source' = None) =>
             (mpc = "clear" /\ mpc' = "sleep")
      ]_vars

\* The listener of the running owner has returned and is still the owner.
WitC15 ==
    \E p \in Ports :
        /\ lpc[p] = "dead"
        /\ current_source = p
        /\ running
        /\ ticks > 0

\* C16 (as claimed): the first reconciliation pass that runs after a
\* listener has returned and that finds its identifier in the discovered
\* set starts a new listener for it.  (A returned listener is "dead" until
\* the next pass, which pops its entry.)
CexC16 ==
    [][ \A p \in Ports :
          (mpc = "loop" /\ mpc' = "clear" /\ lpc[p] = "dead" /\ p \in present')
             => lpc'[p] = "opening"
      ]_vars

\* C17: a failed scan iteration (the discovery call raises) does not end
\* the scan loop and changes neither owner, running, ticks nor the
\* registry: main goes to the sleep of the loop, from the sleep it can only
\* go back to the loop test, and there, while stop_event is not set, the
\* next iteration can start.
ThmC17 ==
    [][ /\ (mpc = "loop" /\ ev'.t = "scanfail") =>
             /\ mpc' = "sleep"
             /\ UNCHANGED arb
             /\ UNCHANGED <<threads, lpc, pcm>>
        /\ mpc = "sleep" => (ENABLED Sleep /\ mpc' \in {"sleep", "loop"})
        /\ (mpc = "loop" /\ ~stop_event) =>
             /\ ENABLED (\E pres \in SUBSET Ports : ScanSpawn(pres))
             /\ mpc' \notin {"fatal", "close", "done"}
      ]_vars

\* A scan iteration has just failed while an owner is running.
WitC17 ==
    /\ ev.t = "scanfail"
    /\ mpc = "sleep"
    /\ current_source # None
    /\ running

\* C18 (as claimed): the autopatch daemon connects every real input to
\* every real output and is hot-plug safe: a pass in which no aconnect call
\* failed leaves every pair of a listed input and a listed output that are
\* still plugged connected, also when the link was made before and lost by
\* an unplug and replug under the same id.
CexC18 ==
    [][ (apc = "patch" /\ apc' = "sleep" /\ passOk') =>
          \A s \in a_ins : \A d \in a_outs :
              (s # d /\ s \in plugged /\ d \in plugged) => <<s, d>> \in links'
      ]_vars

\* A task is blocked on state_lock: a listener at a with state_lock (lines
\* 132, 139, 144, 106) or main in clear_source_if_gone (line 115).
WaitsForStateLock ==
    \/ \E q \in Ports : lpc[q] \in {"lock", "adopt"}
    \/ mpc = "clear"

\* The steps by which the listener holding state_lock goes on to release it.
HolderStep(h) ==
    \/ Handle(h)
    \/ WriteClickEnter(h)
    \/ WritePulseOk(h)
    \/ WriteSilenceOk(h)
    \/ WriteFail(h)

\* C19 (as claimed): no task waits for ever for state_lock: while the
\* process lives and a task is blocked on state_lock, the listener that
\* holds it can go on towards releasing it (it has a step to take, or it
\* waits for alsa_lock while main, which holds that, is closing the device).
CexC19 ==
    ProcessAlive =>
        \A h \in Ports :
            (state_lock = h /\ WaitsForStateLock) =>
                \/ ENABLED HolderStep(h)
                \/ (lpc[h] = "click" /\ alsa_lock = "main")

\* C20: at most one live listener per input identifier.  A live listener
\* has an entry in threads; a reconciliation pass starts a listener for an
\* identifier only when threads holds no entry for it (and so no listener
\* of it lives), and an entry leaves threads only after its listener has
\* returned.
ThmC20 ==
    /\ \A p \in Ports : lpc[p] \notin {"none", "dead"} => p \in threads
    /\ [][ \A p \in Ports :
             /\ (mpc = "loop" /\ mpc' = "clear" /\ lpc'[p] # lpc[p]) =>
                  \/ /\ lpc'[p] = "opening"
                     /\ lpc[p] = "none"
                     /\ p \notin threads
                     /\ p \in threads'
                  \/ /\ lpc'[p] = "none"
                     /\ lpc[p] = "dead"
                     /\ p \notin threads'
             /\ (lpc'[p] \notin {"none", "dead"}) => p \in threads'
             /\ (p \in threads /\ p \notin threads') => lpc[p] = "dead"
         ]_vars

\* A second listener of the owner has been started after the first one
\* returned and its entry was popped, while the other input's listener lives.
WitC20 ==
    /\ lpc["A"] = "opening"
    /\ current_source = "A"
    /\ "A" \in threads
    /\ lpc["B"] = "wait"

=============================================================================
